---- MODULE Spec2Model ----
(***************************************************************************)
(* The two publishers of text-sentiment-nlp-publisher: devto_publisher.py  *)
(* and hashnode_publisher.py.  Both read the whole of articles.json, pick  *)
(* the first article whose platform flag is not set, submit it, and on     *)
(* success set the flag in memory and overwrite the whole file.            *)
(***************************************************************************)
EXTENDS Integers, Sequences, FiniteSets, TLC

\* ------------------------------------------------------------------ bounds
\* Number of articles in articles.json.
NumArticles == 3
\* Largest value of the MAX_ARTICLES_PER_RUN setting the model draws.
MaxCap == 2
\* Longest article body, in characters, and longest tag list the model draws.
MaxBodyLen == 3
MaxTags == 5

Ids == 1..NumArticles

\* ------------------------------------------------------------------- state
VARIABLES
    file,             \* articles.json: the persisted list of article records
    MAX_PER_RUN,      \* devto_publisher.MAX_PER_RUN, read from the environment
    nature,           \* per article: how the platforms answer its submission
    dPc,              \* position of devto_publisher.main
    DEVTO_API_KEY,    \* devto_publisher.DEVTO_API_KEY of the run is set
    articles,         \* main's local `articles` (devto)
    published_count,  \* main's local `published_count` (devto)
    dIdx,             \* main's local `idx` (devto); 0 is None
    dResponse,        \* the response requests.post returned (devto)
    dResult,          \* the dict publish_to_devto returned
    dExit,            \* how the devto run ended, once it has
    dAccepted,        \* articles Dev.to has created (answered 201)
    dBase,            \* the file as the devto run loaded it
    dInterrupted,     \* the latest devto run was terminated from outside
    dPayload,         \* the payload of the request in flight to Dev.to
    dTrace,           \* what the devto run has done so far, in order
    hPc,              \* position of hashnode_publisher.main
    HASHNODE_API_KEY, \* hashnode_publisher.HASHNODE_API_KEY of the run is set
    HASHNODE_PUBLICATION_ID, \* and its HASHNODE_PUBLICATION_ID
    hArticles,        \* main's local `articles` (hashnode)
    hIdx,             \* index of main's local `article` in hArticles; 0 is None
    hResponse,        \* the response requests.post returned (hashnode)
    hUrl,             \* main's local `url` (hashnode)
    hExit,            \* how the hashnode run ended, once it has
    hAccepted,        \* articles Hashnode has created (answered success)
    hPayload,         \* the payload of the request in flight to Hashnode
    hBase             \* the file as the hashnode run loaded it

dVars == <<dPc, articles, published_count, dIdx, dResponse, dResult, dExit,
           dAccepted, dBase, dInterrupted, dPayload, dTrace, DEVTO_API_KEY>>
hVars == <<hPc, hArticles, hIdx, hResponse, hUrl, hExit, hAccepted, hBase,
           hPayload, HASHNODE_API_KEY, HASHNODE_PUBLICATION_ID>>
\* The cap setting and the platforms.
env == <<MAX_PER_RUN, nature>>
vars == <<file, env, dVars, hVars>>

\* ------------------------------------------------------------------ values
\* Python's None, and an absent dict key read through .get().
None == <<>>

\* The URLs the model tells apart: an article's own canonical_url and the
\* URL a platform gives the post it created.
CanonicalUrl(i) == <<"canonical", i>>
DevtoPostUrl(i) == <<"dev.to", i>>
HashnodePostUrl(i) == <<"hashnode", i>>

\* Text is a sequence of characters.  The two URLs build_body_with_cta
\* looks for, "...text-sentiment-nlp-insights-landing..." and
\* "...text-sentiment-nlp-insights-api...", share their beginning and differ
\* in their end: here "t" followed by "l", and "t" followed by "a".
LandingMarker == <<"t", "l">>
ApiMarker == <<"t", "a">>
Whitespace == {" ", "\n"}

\* CTA_SNIPPET (lines 16-25), after .strip("\n"): it starts with the rule
\* "---", carries both URLs and ends with the ")" of the second link.
CTA_SNIPPET == <<"-", "\n", "t", "l", ")", "\n", "t", "a", ")">>

\* Tags are text too: lower-case letters, upper-case letters, and the rest.
LowerCase == {"a", "l", "p", "t", "y"}

\* One record of articles.json as the upstream authoring process writes it:
\* no platform flag set yet.
NewArticle(i) ==
    [title |-> i,
     canonical_url |-> CanonicalUrl(i),
     body_markdown |-> <<"a", "\n">>,
     content_markdown |-> <<"a", "\n">>,
     tags |-> <<<<"p", "y">>, <<"M", " ", "L">>>>,
     series |-> None,
     devto_published |-> FALSE,
     devto_url |-> None,
     hashnode_published |-> FALSE,
     hashnode_url |-> None]

NoResponse == [code |-> 0, body |-> "none"]
NoPayload == <<>>
NoResult == [status |-> "none", url |-> None, error |-> ""]

\* ------------------------------------------------------------- the content store
\* load_articles: json.load of the whole file.
load_articles == file

\* save_articles: json.dump of the whole list, overwriting the file.
MutSaveUnpublishedOnly(arts) == SelectSeq(arts, LAMBDA a : ~a.devto_published)
MutSaveSkipped(arts) == file
save_articles(arts) == arts

\* ---------------------------------------------------------------- selection
\* get_next_unpublished_devto_index: the first index whose devto_published is
\* not truthy, or None (0).
MutNextAnyUnpublished(arts) ==
    LET S == {i \in 1..Len(arts) : ~arts[i].devto_published}
    IN  IF S = {} THEN 0 ELSE CHOOSE i \in S : \A j \in S : j <= i
get_next_unpublished_devto_index(arts) ==
    LET S == {i \in 1..Len(arts) : ~arts[i].devto_published}
    IN  IF S = {} THEN 0 ELSE CHOOSE i \in S : \A j \in S : i <= j

\* get_next_unpublished_hashnode: the first article whose hashnode_published
\* is not truthy (here: its index), or None (0).
get_next_unpublished_hashnode(arts) ==
    LET S == {i \in 1..Len(arts) : ~arts[i].hashnode_published}
    IN  IF S = {} THEN 0 ELSE CHOOSE i \in S : \A j \in S : i <= j

\* ------------------------------------------------------------ the payloads
\* str.rstrip(): the text without its trailing whitespace.
RECURSIVE rstrip(_)
rstrip(text) ==
    IF text # <<>> /\ text[Len(text)] \in Whitespace
    THEN rstrip(SubSeq(text, 1, Len(text) - 1))
    ELSE text

\* Python's `sub in text` for strings.
Contains(text, sub) ==
    \E k \in 0..(Len(text) - Len(sub)) : SubSeq(text, k + 1, k + Len(sub)) = sub

\* build_body_with_cta (lines 48-66).
MutCtaAlwaysAppended(raw_body) ==
    LET body == rstrip(raw_body)
    IN  IF body # <<>> THEN body \o <<"\n", "\n">> \o CTA_SNIPPET
        ELSE CTA_SNIPPET
build_body_with_cta(raw_body) ==
    LET body == rstrip(raw_body)
    IN  IF Contains(body, LandingMarker) \/ Contains(body, ApiMarker)
        THEN body
        ELSE IF body # <<>> THEN body \o <<"\n", "\n">> \o CTA_SNIPPET
        ELSE CTA_SNIPPET

\* Lines 90-104: the payload publish_to_devto posts.  A content_markdown
\* that is absent or empty falls back to body_markdown.
MutDevtoPayloadTagsCapped(article) ==
    [title |-> article.title,
     canonical_url |-> article.canonical_url,
     series |-> article.series,
     tags |-> IF Len(article.tags) > 4 THEN SubSeq(article.tags, 1, 4)
              ELSE article.tags,
     body_markdown |-> build_body_with_cta(article.body_markdown),
     content_markdown |->
        build_body_with_cta(IF article.content_markdown # <<>>
                            THEN article.content_markdown
                            ELSE article.body_markdown)]
DevtoPayload(article) ==
    [title |-> article.title,
     canonical_url |-> article.canonical_url,
     series |-> article.series,
     tags |-> article.tags,
     body_markdown |-> build_body_with_cta(article.body_markdown),
     content_markdown |->
        build_body_with_cta(IF article.content_markdown # <<>>
                            THEN article.content_markdown
                            ELSE article.body_markdown)]

\* build_hashnode_payload (lines 38-76): each tag becomes a slug and a name.
build_hashnode_payload(article) ==
    [title |-> article.title,
     contentMarkdown |-> article.content_markdown,
     tags |-> [k \in 1..Len(article.tags) |->
                  [slug |-> article.tags[k], name |-> article.tags[k]]]]

\* ------------------------------------------------------- the Dev.to platform
\* What requests.post can return from Dev.to, by status code and body:
\* 201 with a JSON body carrying "url", 201 with a JSON body without it,
\* 201 with a body that is not JSON, 429, 422 with and without the text
\* "Canonical url has already been taken", another 4xx, a 5xx.
AllDevtoResponses ==
    {[code |-> 201, body |-> "url"],
     [code |-> 201, body |-> "nourl"],
     [code |-> 201, body |-> "malformed"],
     [code |-> 429, body |-> "rate limit"],
     [code |-> 422, body |-> "Canonical url has already been taken"],
     [code |-> 422, body |-> "Title can't be blank"],
     [code |-> 400, body |-> "bad request"],
     [code |-> 500, body |-> "server error"]}

\* The answers Dev.to gives to article i's submission.  "any": every answer
\* is possible; "good": it always creates the post; "broken": it always
\* rejects the article; "taken": it always reports the canonical URL taken.
DevtoResponses(i) ==
    CASE nature[i] = "good" -> {[code |-> 201, body |-> "url"]}
      [] nature[i] = "broken" -> {[code |-> 422, body |-> "Title can't be blank"],
                                  [code |-> 400, body |-> "bad request"]}
      [] nature[i] = "taken" ->
            {[code |-> 422, body |-> "Canonical url has already been taken"]}
      [] OTHER -> AllDevtoResponses

\* publish_to_devto, from the response on (lines 108-135).  response.json()
\* raising on a body that is not JSON is the status "raise".
MutCanonicalTakenIsValidationError(article, response) ==
    IF response.code = 201
    THEN IF response.body = "malformed"
         THEN [status |-> "raise", url |-> None, error |-> ""]
         ELSE [status |-> "published",
               url |-> IF response.body = "url" THEN DevtoPostUrl(article.title)
                       ELSE None,
               error |-> ""]
    ELSE IF response.code = 429
    THEN [status |-> "rate_limited", url |-> None, error |-> ""]
    ELSE IF response.code = 422
    THEN [status |-> "validation_error", url |-> None, error |-> response.body]
    ELSE [status |-> "error", url |-> None, error |-> response.body]
MutEvery422IsCanonicalTaken(article, response) ==
    IF response.code = 201
    THEN IF response.body = "malformed"
         THEN [status |-> "raise", url |-> None, error |-> ""]
         ELSE [status |-> "published",
               url |-> IF response.body = "url" THEN DevtoPostUrl(article.title)
                       ELSE None,
               error |-> ""]
    ELSE IF response.code = 429
    THEN [status |-> "rate_limited", url |-> None, error |-> ""]
    ELSE IF response.code = 422
    THEN [status |-> "canonical_taken", url |-> None, error |-> ""]
    ELSE [status |-> "error", url |-> None, error |-> response.body]
publish_to_devto(article, response) ==
    IF response.code = 201
    THEN IF response.body = "malformed"
         THEN [status |-> "raise", url |-> None, error |-> ""]
         ELSE [status |-> "published",
               url |-> IF response.body = "url" THEN DevtoPostUrl(article.title)
                       ELSE None,
               error |-> ""]
    ELSE IF response.code = 429
    THEN [status |-> "rate_limited", url |-> None, error |-> ""]
    ELSE IF response.code = 422
    THEN IF response.body = "Canonical url has already been taken"
         THEN [status |-> "canonical_taken", url |-> None, error |-> ""]
         ELSE [status |-> "validation_error", url |-> None, error |-> response.body]
    ELSE [status |-> "error", url |-> None, error |-> response.body]

\* ------------------------------------------------------ devto_publisher.main
\* Line 142: the while condition.
MutLoopConditionOffByOne(count) == count <= MAX_PER_RUN
MutLoopIgnoresCap(count) == TRUE
LoopCondition(count) == count < MAX_PER_RUN

\* Lines 154, 166, 170: what main does with a result status.
MutBranchRecordsEveryStatus(status) == "record"
MutBranchSkipsRecord(status) ==
    IF status = "rate_limited" THEN "stop_rate_limited" ELSE "stop_failed"
MainBranch(status) ==
    IF status \in {"published", "canonical_taken"} THEN "record"
    ELSE IF status = "rate_limited" THEN "stop_rate_limited"
    ELSE "stop_failed"

\* Lines 156-158: the in-memory update of articles[idx].
MutRecordClearsEarlierFlag(arts, idx, result) ==
    [i \in 1..Len(arts) |->
        IF i = idx THEN [arts[i] EXCEPT !.devto_published = TRUE]
        ELSE [arts[i] EXCEPT !.devto_published = FALSE]]
MutRecordFallsBackToCanonicalUrl(arts, idx, result) ==
    [arts EXCEPT
        ![idx].devto_published = TRUE,
        ![idx].devto_url =
            IF result.url # None THEN result.url ELSE arts[idx].canonical_url]
RecordPublished(arts, idx, result) ==
    [arts EXCEPT
        ![idx].devto_published = TRUE,
        ![idx].devto_url =
            IF result.status = "published" /\ result.url # None
            THEN result.url ELSE @]

\* Lines 80 (devto) and 80 (hashnode): `if not DEVTO_API_KEY`,
\* `if not HASHNODE_API_KEY or not HASHNODE_PUBLICATION_ID`.
MutCredentialsNeverChecked(credentials) == FALSE
CredentialsMissing(credentials) == \E c \in credentials : ~c

\* Lines 162-164: after a recorded success main sleeps, whatever the count.
MutPacingSkipped(count) == "loop"
MutPacingOnlyBelowCap(count) == IF count < MAX_PER_RUN THEN "sleep" ELSE "loop"
AfterRecord(count) == "sleep"

\* main is left: through line 174, by sys.exit, or by an exception nothing
\* catches.
DevtoEnd(reason) ==
    /\ dPc' = "done"
    /\ dExit' = reason
    /\ UNCHANGED <<articles, published_count, dIdx, dResponse, dResult, dBase,
                   dInterrupted, DEVTO_API_KEY, dPayload, dTrace>>

\* The process is gone: its locals with it.
DevtoGone ==
    /\ dPc' = "idle"
    /\ dExit' = "none"
    /\ articles' = <<>>
    /\ published_count' = 0
    /\ dIdx' = 0
    /\ dResponse' = NoResponse
    /\ dResult' = NoResult
    /\ dBase' = <<>>
    /\ dPayload' = NoPayload
    /\ dTrace' = <<>>
    /\ DEVTO_API_KEY' = FALSE

\* Lines 12, 139-140: the process reads its environment at import, where
\* the API key is set or not, and main loads the file.
DevtoStart ==
    /\ dPc = "idle"
    /\ DEVTO_API_KEY' \in BOOLEAN
    /\ articles' = load_articles
    /\ dBase' = file
    /\ published_count' = 0
    /\ dTrace' = <<>>
    /\ dPc' = "loop"
    /\ UNCHANGED <<file, env, dIdx, dResponse, dResult, dExit, dAccepted,
                   dInterrupted, dPayload, hVars>>

\* Lines 142-149 and, when the loop is left, line 174.
DevtoSelect ==
    /\ dPc = "loop"
    /\ IF ~LoopCondition(published_count)
       THEN DevtoEnd("cap")
       ELSE LET idx == get_next_unpublished_devto_index(articles)
            IN  IF idx = 0
                THEN DevtoEnd("empty")
                ELSE /\ dIdx' = idx
                     /\ dPc' = "post"
                     /\ UNCHANGED <<articles, published_count, dResponse,
                                    dResult, dExit, dBase, dInterrupted, DEVTO_API_KEY,
                                    dPayload, dTrace>>
    /\ UNCHANGED <<file, env, dAccepted, hVars>>

\* Lines 151, 80-106: without the API key publish_to_devto prints the error
\* and calls sys.exit(1); with it, the request for articles[idx] goes out.
DevtoPost ==
    /\ dPc = "post"
    /\ IF CredentialsMissing({DEVTO_API_KEY})
       THEN DevtoEnd("config_error")
       ELSE /\ dPayload' = DevtoPayload(articles[dIdx])
            /\ dTrace' = Append(dTrace, "submit")
            /\ dPc' = "wait"
            /\ UNCHANGED <<articles, published_count, dIdx, dResponse, dResult,
                           dExit, dBase, dInterrupted, DEVTO_API_KEY>>
    /\ UNCHANGED <<file, env, dAccepted, hVars>>

\* Lines 106-135, 152: Dev.to answers and publish_to_devto returns its dict
\* (or response.json() raises and the process dies with a traceback).
DevtoRespond ==
    /\ dPc = "wait"
    /\ \E r \in DevtoResponses(dIdx) :
          LET result == publish_to_devto(articles[dIdx], r)
          IN  /\ dAccepted' = IF r.code = 201 THEN dAccepted \cup {dIdx}
                              ELSE dAccepted
              /\ IF result.status = "raise"
                 THEN DevtoEnd("exception")
                 ELSE /\ dResponse' = r
                      /\ dResult' = result
                      /\ dPc' = "handle"
                      /\ UNCHANGED <<articles, published_count, dIdx, dExit,
                                     dBase, dInterrupted, DEVTO_API_KEY, dPayload, dTrace>>
    /\ UNCHANGED <<file, env, hVars>>

\* Line 106: requests.post raises (connection failure, timeout); nothing
\* catches it.
DevtoTransportError ==
    /\ dPc = "wait"
    /\ nature[dIdx] = "any"
    /\ DevtoEnd("transport_error")
    /\ UNCHANGED <<file, env, dAccepted, hVars>>

\* Lines 154-160: set the flag, store the URL if there is one, overwrite the
\* file, count the success.
DevtoRecord ==
    /\ dPc = "handle"
    /\ MainBranch(dResult.status) = "record"
    /\ articles' = RecordPublished(articles, dIdx, dResult)
    /\ file' = save_articles(articles')
    /\ published_count' = published_count + 1
    /\ dTrace' = Append(dTrace, "published")
    /\ dPc' = AfterRecord(published_count')
    /\ UNCHANGED <<env, dIdx, dResponse, dResult, dExit, dAccepted, dBase,
                   dInterrupted, DEVTO_API_KEY, dPayload, hVars>>

\* Lines 163-164: time.sleep(60); continue.
DevtoSleep ==
    /\ dPc = "sleep"
    /\ dTrace' = Append(dTrace, "sleep")
    /\ dPc' = "loop"
    /\ UNCHANGED <<file, env, articles, published_count, dIdx, dResponse,
                   dResult, dExit, dAccepted, dBase, dInterrupted, DEVTO_API_KEY, dPayload,
                   hVars>>

\* Lines 166-174: rate limited, or any other status: break.
DevtoStop ==
    /\ dPc = "handle"
    /\ MainBranch(dResult.status) # "record"
    /\ DevtoEnd(IF MainBranch(dResult.status) = "stop_rate_limited"
                THEN "rate_limited" ELSE "failed")
    /\ UNCHANGED <<file, env, dAccepted, hVars>>

\* After line 174, or after the traceback: the process exits.
DevtoExit ==
    /\ dPc = "done"
    /\ DevtoGone
    /\ dInterrupted' = FALSE
    /\ UNCHANGED <<file, env, dAccepted, hVars>>

\* The process is terminated from outside, wherever it is.
DevtoInterrupt ==
    /\ dPc \notin {"idle", "done"}
    /\ DevtoGone
    /\ dInterrupted' = TRUE
    /\ UNCHANGED <<file, env, dAccepted, hVars>>

\* ----------------------------------------------------- the Hashnode platform
\* What requests.post can return from Hashnode: 200 with a story and its
\* URL, 200 with a successful story without a URL, 200 with "errors", 200
\* with success false, 200 with a body that is not JSON, and non-200 codes.
AllHashnodeResponses ==
    {[code |-> 200, body |-> "url"],
     [code |-> 200, body |-> "nourl"],
     [code |-> 200, body |-> "errors"],
     [code |-> 200, body |-> "notsuccess"],
     [code |-> 200, body |-> "malformed"],
     [code |-> 429, body |-> "rate limit"],
     [code |-> 400, body |-> "bad request"],
     [code |-> 500, body |-> "server error"]}

\* The answers Hashnode gives to article i's submission; Hashnode has no
\* canonical-URL answer, so only "broken" articles are rejected.
HashnodeResponses(i) ==
    CASE nature[i] = "any" -> AllHashnodeResponses
      [] nature[i] = "broken" -> {[code |-> 200, body |-> "errors"],
                                  [code |-> 400, body |-> "bad request"]}
      [] OTHER -> {[code |-> 200, body |-> "url"]}

\* publish_to_hashnode, from the response on (lines 93-110): the URL, or
\* None.  response.json() raising is "raise".
publish_to_hashnode(article, response) ==
    IF response.code # 200 THEN None
    ELSE IF response.body = "malformed" THEN <<"raise">>
    ELSE IF response.body = "errors" THEN None
    ELSE IF response.body = "notsuccess" THEN None
    ELSE IF response.body = "url" THEN HashnodePostUrl(article.title)
    ELSE None

\* --------------------------------------------------- hashnode_publisher.main
\* Lines 125-126: the in-memory update of the selected article.
MutRecordHashnodeMarksDevtoToo(arts, idx, url) ==
    [arts EXCEPT ![idx].hashnode_published = TRUE,
                 ![idx].hashnode_url = url,
                 ![idx].devto_published = TRUE]
RecordHashnode(arts, idx, url) ==
    [arts EXCEPT ![idx].hashnode_published = TRUE, ![idx].hashnode_url = url]

\* main is left: by return, or by an exception nothing catches.
HashnodeEnd(reason) ==
    /\ hPc' = "done"
    /\ hExit' = reason

\* The process is gone: its locals with it.
HashnodeGone ==
    /\ hPc' = "idle"
    /\ hExit' = "none"
    /\ hArticles' = <<>>
    /\ hIdx' = 0
    /\ hResponse' = NoResponse
    /\ hUrl' = None
    /\ hBase' = <<>>
    /\ hPayload' = NoPayload
    /\ HASHNODE_API_KEY' = FALSE
    /\ HASHNODE_PUBLICATION_ID' = FALSE

\* Lines 12-13, 114-121: the process reads its environment at import, where
\* each credential is set or not, and main loads the file and picks.
HashnodeStart ==
    /\ hPc = "idle"
    /\ HASHNODE_API_KEY' \in BOOLEAN
    /\ HASHNODE_PUBLICATION_ID' \in BOOLEAN
    /\ LET arts == load_articles
           idx == get_next_unpublished_hashnode(arts)
       IN  /\ hArticles' = arts
           /\ hBase' = file
           /\ hIdx' = idx
           /\ IF idx = 0
              THEN HashnodeEnd("empty")
              ELSE hPc' = "post" /\ hExit' = hExit
    /\ UNCHANGED <<file, env, hResponse, hUrl, hAccepted, hPayload, dVars>>

\* Lines 122, 80-91: without the API key or the publication id
\* publish_to_hashnode prints the error and calls sys.exit(1); with both,
\* the request goes out.
HashnodePost ==
    /\ hPc = "post"
    /\ IF CredentialsMissing({HASHNODE_API_KEY, HASHNODE_PUBLICATION_ID})
       THEN HashnodeEnd("config_error") /\ hPayload' = hPayload
       ELSE /\ hPayload' = build_hashnode_payload(hArticles[hIdx])
            /\ hPc' = "wait"
            /\ hExit' = hExit
    /\ UNCHANGED <<file, env, hArticles, hIdx, hResponse, hUrl, hAccepted,
                   hBase, HASHNODE_API_KEY,
                   HASHNODE_PUBLICATION_ID, dVars>>

\* Lines 91-110, 122: Hashnode answers and publish_to_hashnode returns.
HashnodeRespond ==
    /\ hPc = "wait"
    /\ \E r \in HashnodeResponses(hIdx) :
          LET url == publish_to_hashnode(hArticles[hIdx], r)
          IN  /\ hResponse' = r
              /\ hAccepted' = IF r.code = 200 /\ r.body \in {"url", "nourl"}
                              THEN hAccepted \cup {hIdx} ELSE hAccepted
              /\ IF url = <<"raise">>
                 THEN HashnodeEnd("exception") /\ hUrl' = hUrl
                 ELSE hUrl' = url /\ hPc' = "handle" /\ hExit' = hExit
    /\ UNCHANGED <<file, env, hArticles, hIdx, hBase, HASHNODE_API_KEY,
                   HASHNODE_PUBLICATION_ID, hPayload, dVars>>

\* Line 91: requests.post raises; nothing catches it.
HashnodeTransportError ==
    /\ hPc = "wait"
    /\ nature[hIdx] = "any"
    /\ HashnodeEnd("transport_error")
    /\ UNCHANGED <<file, env, hArticles, hIdx, hResponse, hUrl, hAccepted,
                   hBase, HASHNODE_API_KEY,
                   HASHNODE_PUBLICATION_ID, hPayload, dVars>>

\* Lines 124-128: a truthy url: set the flag and the URL, overwrite the file.
HashnodeRecord ==
    /\ hPc = "handle"
    /\ hUrl # None
    /\ hArticles' = RecordHashnode(hArticles, hIdx, hUrl)
    /\ file' = save_articles(hArticles')
    /\ HashnodeEnd("published")
    /\ UNCHANGED <<env, hIdx, hResponse, hUrl, hAccepted, hBase, HASHNODE_API_KEY,
                   HASHNODE_PUBLICATION_ID, hPayload,
                   dVars>>

\* Lines 129-130: no url: nothing is recorded.
HashnodeFail ==
    /\ hPc = "handle"
    /\ hUrl = None
    /\ HashnodeEnd("failed")
    /\ UNCHANGED <<file, env, hArticles, hIdx, hResponse, hUrl, hAccepted,
                   hBase, HASHNODE_API_KEY,
                   HASHNODE_PUBLICATION_ID, hPayload, dVars>>

\* After main returned, or after the traceback: the process exits.
HashnodeExit ==
    /\ hPc = "done"
    /\ HashnodeGone
    /\ UNCHANGED <<file, env, hAccepted, dVars>>

\* The process is terminated from outside, wherever it is.
HashnodeInterrupt ==
    /\ hPc \notin {"idle", "done"}
    /\ HashnodeGone
    /\ UNCHANGED <<file, env, hAccepted, dVars>>

\* ------------------------------------------------------------ specification
\* articles.json as authored, every process idle.
InitLocals ==
    /\ MAX_PER_RUN \in 1..MaxCap
    /\ dPayload = NoPayload
    /\ dTrace = <<>>
    /\ hPayload = NoPayload
    /\ DEVTO_API_KEY = FALSE
    /\ HASHNODE_API_KEY = FALSE
    /\ HASHNODE_PUBLICATION_ID = FALSE
    /\ dPc = "idle"
    /\ articles = <<>>
    /\ published_count = 0
    /\ dIdx = 0
    /\ dResponse = NoResponse
    /\ dResult = NoResult
    /\ dExit = "none"
    /\ dAccepted = {}
    /\ dBase = <<>>
    /\ dInterrupted = FALSE
    /\ hPc = "idle"
    /\ hArticles = <<>>
    /\ hIdx = 0
    /\ hResponse = NoResponse
    /\ hUrl = None
    /\ hExit = "none"
    /\ hAccepted = {}
    /\ hBase = <<>>

InitProcesses ==
    /\ file = [i \in Ids |-> NewArticle(i)]
    /\ InitLocals

\* Every answer of the platforms is possible.
Init ==
    /\ InitProcesses
    /\ nature = [i \in Ids |-> "any"]

\* One run at a time: a publisher starts only while the other is not running.
SeqDevtoStart == hPc = "idle" /\ DevtoStart
SeqHashnodeStart == dPc = "idle" /\ HashnodeStart

Next ==
    \/ SeqDevtoStart
    \/ DevtoSelect
    \/ DevtoPost
    \/ DevtoRespond
    \/ DevtoTransportError
    \/ DevtoRecord
    \/ DevtoSleep
    \/ DevtoStop
    \/ DevtoExit
    \/ DevtoInterrupt
    \/ SeqHashnodeStart
    \/ HashnodePost
    \/ HashnodeRespond
    \/ HashnodeTransportError
    \/ HashnodeRecord
    \/ HashnodeFail
    \/ HashnodeExit
    \/ HashnodeInterrupt

Spec == Init /\ [][Next]_vars

\* Runs that are neither interrupted nor cut off, against platforms whose
\* answer to each article is settled: each article is one the platform
\* always accepts ("good"), always rejects ("broken"), or Dev.to always
\* reports as already taken ("taken").
InitLive ==
    /\ InitProcesses
    /\ nature \in [Ids -> {"good", "broken", "taken"}]

\* A start with the credentials in the environment.
LiveDevtoStart == SeqDevtoStart /\ DEVTO_API_KEY'
LiveHashnodeStart ==
    SeqHashnodeStart /\ HASHNODE_API_KEY' /\ HASHNODE_PUBLICATION_ID'

DevtoStep ==
    \/ DevtoSelect
    \/ DevtoPost
    \/ DevtoRespond
    \/ DevtoRecord
    \/ DevtoSleep
    \/ DevtoStop
    \/ DevtoExit

HashnodeStep ==
    \/ HashnodePost
    \/ HashnodeRespond
    \/ HashnodeRecord
    \/ HashnodeFail
    \/ HashnodeExit

NextLive ==
    \/ LiveDevtoStart
    \/ DevtoSelect
    \/ DevtoPost
    \/ DevtoRespond
    \/ DevtoRecord
    \/ DevtoSleep
    \/ DevtoStop
    \/ DevtoExit
    \/ LiveHashnodeStart
    \/ HashnodePost
    \/ HashnodeRespond
    \/ HashnodeRecord
    \/ HashnodeFail
    \/ HashnodeExit

\* An infinite sequence of runs of each publisher: a run that has started
\* goes on to its end, and each publisher is started again and again.
SpecLive ==
    /\ InitLive
    /\ [][NextLive]_vars
    /\ WF_vars(DevtoStep)
    /\ WF_vars(HashnodeStep)
    /\ SF_vars(LiveDevtoStart)
    /\ SF_vars(LiveHashnodeStart)

\* Runs left to themselves: every request is answered or raises, and a
\* process that can take a step takes one.
DevtoRun ==
    \/ DevtoSelect
    \/ DevtoPost
    \/ DevtoRespond
    \/ DevtoTransportError
    \/ DevtoRecord
    \/ DevtoSleep
    \/ DevtoStop

HashnodeRun ==
    \/ HashnodePost
    \/ HashnodeRespond
    \/ HashnodeTransportError
    \/ HashnodeRecord
    \/ HashnodeFail

NextRuns ==
    \/ SeqDevtoStart
    \/ DevtoSelect
    \/ DevtoPost
    \/ DevtoRespond
    \/ DevtoTransportError
    \/ DevtoRecord
    \/ DevtoSleep
    \/ DevtoStop
    \/ DevtoExit
    \/ SeqHashnodeStart
    \/ HashnodePost
    \/ HashnodeRespond
    \/ HashnodeTransportError
    \/ HashnodeRecord
    \/ HashnodeFail
    \/ HashnodeExit

SpecRuns ==
    /\ Init
    /\ [][NextRuns]_vars
    /\ WF_vars(DevtoRun)
    /\ WF_vars(HashnodeRun)

\* The two publishers started independently of each other (two cron jobs,
\* two workflow runs): a run of one may begin while a run of the other is
\* between its load and its save.
ConcDevtoStart == DevtoStart /\ DEVTO_API_KEY'
ConcHashnodeStart ==
    HashnodeStart /\ HASHNODE_API_KEY' /\ HASHNODE_PUBLICATION_ID'

NextConc ==
    \/ ConcDevtoStart
    \/ DevtoSelect
    \/ DevtoPost
    \/ DevtoRespond
    \/ DevtoRecord
    \/ DevtoSleep
    \/ DevtoStop
    \/ DevtoExit
    \/ ConcHashnodeStart
    \/ HashnodePost
    \/ HashnodeRespond
    \/ HashnodeRecord
    \/ HashnodeFail
    \/ HashnodeExit

\* Platforms that accept an article or reject it, the same way every time.
InitConc ==
    /\ InitProcesses
    /\ nature \in [Ids -> {"good", "broken"}]

SpecConc == InitConc /\ [][NextConc]_vars

\* Articles of every short body and every short tag list: the first article
\* of the file carries either a drawn body and content or a drawn tag list.
Chars == {"a", "t", "l", " ", "\n"}
SeqsUpTo(S, n) == UNION {[1..k -> S] : k \in 0..n}
Bodies ==
    SeqsUpTo(Chars, MaxBodyLen)
        \cup {CTA_SNIPPET, CTA_SNIPPET \o <<"\n">>,
              <<"a", "\n", "\n">> \o CTA_SNIPPET}
Contents == {<<>>, <<"l", " ">>}
TagLists == SeqsUpTo({<<"p", "y">>, <<"M", " ", "L">>}, MaxTags)

InitPayload ==
    /\ InitLocals
    /\ nature = [i \in Ids |-> "any"]
    /\ \E b \in Bodies, c \in Contents, t \in TagLists :
          /\ \/ t = NewArticle(1).tags
             \/ b = NewArticle(1).body_markdown /\ c = <<>>
          /\ file = [i \in Ids |->
                        IF i = 1
                        THEN [NewArticle(i) EXCEPT !.body_markdown = b,
                                                   !.content_markdown = c,
                                                   !.tags = t]
                        ELSE NewArticle(i)]

\* Runs up to the request they send, cut off there and started again.
NextPayload ==
    \/ LiveDevtoStart
    \/ DevtoSelect
    \/ DevtoPost
    \/ DevtoInterrupt
    \/ LiveHashnodeStart
    \/ HashnodePost
    \/ HashnodeInterrupt

SpecPayload == InitPayload /\ [][NextPayload]_vars

\* ------------------------------------------------------------------ claims
\* What a run has newly marked published, against the file it loaded.
DevtoNewlyPublished ==
    {i \in 1..Len(dBase) : file[i].devto_published /\ ~dBase[i].devto_published}
HashnodeNewlyPublished ==
    {i \in 1..Len(hBase) :
        file[i].hashnode_published /\ ~hBase[i].hashnode_published}
DevtoPending == {i \in 1..Len(file) : ~file[i].devto_published}

\* The raw outcomes by class.
Retryable(response) == response.code \in {429, 500}
Permanent(response) ==
    \/ response.code = 400
    \/ response.code = 422
       /\ response.body # "Canonical url has already been taken"
CanonicalTaken(response) ==
    /\ response.code = 422
    /\ response.body = "Canonical url has already been taken"

\* C1: a run never marks more articles published (reconciled ones included)
\* than its cap: MAX_PER_RUN for a Dev.to run, one for a Hashnode run.
C1_RunCap ==
    /\ Cardinality(DevtoNewlyPublished) <= MAX_PER_RUN
    /\ published_count <= MAX_PER_RUN
    /\ Cardinality(HashnodeNewlyPublished) <= 1

\* A Dev.to run that stopped at the cap, one of its successes a
\* reconciliation, with an article still pending.
C1_Witness ==
    /\ dPc = "done"
    /\ dExit = "cap"
    /\ Cardinality(DevtoNewlyPublished) = MAX_PER_RUN
    /\ \E i \in DevtoNewlyPublished : file[i].devto_url = None
    /\ DevtoPending # {}

\* C2: a retryable failure (429, 5xx; a transport failure or timeout raises
\* out of the process) ends the run in that very step: the file is not
\* written, the article and all later ones are still pending exactly as the
\* run loaded them, and nothing further is submitted.
C2_RetryableHalts ==
    [][/\ (dPc = "handle" /\ Retryable(dResponse)) =>
            /\ dPc' \in {"done", "idle"}
            /\ file' = file
            /\ \A j \in dIdx..Len(file) :
                  file'[j] = dBase[j] /\ ~file'[j].devto_published
       /\ (dPc = "wait" /\ dExit' = "transport_error") =>
            /\ dPc' = "done"
            /\ file' = file
            /\ \A j \in dIdx..Len(file) :
                  file'[j] = dBase[j] /\ ~file'[j].devto_published
      ]_vars

\* A run whose first submission was rate limited has ended, the file as it
\* was authored.
C2_Witness ==
    /\ dPc = "done"
    /\ dExit = "rate_limited"
    /\ dIdx = 1
    /\ file = [i \in Ids |-> NewArticle(i)]

\* The step in which main records articles[idx] as published (lines 154-160).
DevtoRecordStep == dPc = "handle" /\ dPc' = "sleep"
\* The step in which the request for article i goes out.
DevtoSubmits(i) == dPc = "post" /\ dPc' = "wait" /\ dIdx = i
HashnodeSubmits(i) == hPc = "post" /\ hPc' = "wait" /\ hIdx = i

\* C3 (as claimed): the step that handles a permanent failure (a 4xx that is
\* not the canonical-URL case) persists a change for the article and leaves
\* the run going, so that the next pending article is submitted.
C3_PermanentContinues ==
    [][(dPc = "handle" /\ Permanent(dResponse) /\ dPc' # "idle") =>
            /\ dPc' = "loop"
            /\ file' # file
      ]_vars

\* C3 (amended): a permanent failure ends the run in that very step, like a
\* retryable one: nothing is marked failed, the file is not written, the
\* article and all later ones stay pending exactly as the run loaded them,
\* and nothing further is submitted in that run.
C3_PermanentHalts ==
    [][(dPc = "handle" /\ Permanent(dResponse)) =>
            /\ dPc' \in {"done", "idle"}
            /\ dPc' = "done" => dExit' = "failed"
            /\ file' = file
            /\ \A j \in dIdx..Len(file) :
                  file'[j] = dBase[j] /\ ~file'[j].devto_published
      ]_vars

\* Queue [A, B, C], A rejected with a validation error: the run has ended
\* with A, B and C all still pending.
C3_Witness ==
    /\ dPc = "done"
    /\ dExit = "failed"
    /\ dIdx = 1
    /\ dResponse.code = 422
    /\ DevtoPending = Ids
    /\ MAX_PER_RUN >= 2

\* C5 (as claimed): an article answered "Canonical url has already been
\* taken" is recorded as published with its own canonical URL as its
\* published URL.
C5_ReconciledWithCanonicalUrl ==
    [][(DevtoRecordStep /\ CanonicalTaken(dResponse)) =>
            /\ file'[dIdx].devto_published
            /\ file'[dIdx].devto_url = file'[dIdx].canonical_url
      ]_vars

\* C5 (amended): an article answered "Canonical url has already been taken"
\* is marked published in the file by the next step of the run, its
\* devto_url left as it was (none is recorded), every other record
\* untouched; and an article marked published is never submitted again.
C5_ReconciledOnce ==
    [][/\ (dPc = "handle" /\ CanonicalTaken(dResponse) /\ dPc' # "idle") =>
            /\ DevtoRecordStep
            /\ Len(file') = Len(file)
            /\ file'[dIdx] = [file[dIdx] EXCEPT !.devto_published = TRUE]
            /\ file'[dIdx].devto_url = None
            /\ \A j \in 1..Len(file) : j # dIdx => file'[j] = file[j]
       /\ \A i \in 1..Len(file) : file[i].devto_published => ~DevtoSubmits(i)
      ]_vars

\* A reconciled article, marked published without a URL, while a later run
\* waits for the answer to the article after it.
C5_Witness ==
    /\ file[1].devto_published
    /\ file[1].devto_url = None
    /\ 1 \notin dAccepted
    /\ dPc = "wait"
    /\ dIdx = 2
    /\ published_count = 0

\* C7: a published mark is never cleared, an article marked published is
\* never submitted to that platform again, and a run that finds no pending
\* article submits nothing and changes nothing.
C7_PublishedIsFinal ==
    [][/\ \A i \in 1..Len(file) :
            /\ file[i].devto_published =>
                  /\ i \in 1..Len(file') /\ file'[i].devto_published
                  /\ ~DevtoSubmits(i)
            /\ file[i].hashnode_published =>
                  /\ i \in 1..Len(file') /\ file'[i].hashnode_published
                  /\ ~HashnodeSubmits(i)
       /\ (dPc = "loop" /\ DevtoPending = {}) =>
            dPc' \in {"done", "idle"} /\ file' = file
       /\ (hPc = "idle" /\ hPc' # "idle"
              /\ \A i \in 1..Len(file) : file[i].hashnode_published) =>
            hPc' = "done" /\ file' = file
      ]_vars

\* Every article is published on both platforms and a Dev.to run that found
\* nothing pending has ended.
C7_Witness ==
    /\ \A i \in Ids : file[i].devto_published /\ file[i].hashnode_published
    /\ dPc = "done"
    /\ dExit = "empty"
    /\ published_count = 0

\* C8: whenever an article is submitted, every article before it in the
\* collection is already marked published for that platform.
C8_QueueOrder ==
    /\ dPc \in {"post", "wait", "handle"} =>
          \A j \in 1..(dIdx - 1) :
              file[j].devto_published /\ articles[j].devto_published
    /\ hPc \in {"post", "wait", "handle"} =>
          \A j \in 1..(hIdx - 1) :
              file[j].hashnode_published /\ hArticles[j].hashnode_published

\* The last article is in flight to Dev.to in a run that already published
\* one, the first article being published on Hashnode as well.
C8_Witness ==
    /\ dPc = "wait"
    /\ dIdx = NumArticles
    /\ published_count > 0
    /\ file[1].hashnode_published

\* C9: the identities of the persisted collection, in order, are after
\* every step of a run what they were when the run loaded the file.
Titles(arts) == [i \in 1..Len(arts) |-> arts[i].title]
C9_SameItems ==
    /\ dPc # "idle" => Titles(file) = Titles(dBase)
    /\ hPc # "idle" => Titles(file) = Titles(hBase)
    /\ Titles(file) = [i \in Ids |-> i]

\* A Dev.to run that has marked articles published and ended.
C9_Witness ==
    /\ dPc = "done"
    /\ Cardinality(DevtoNewlyPublished) = MAX_PER_RUN
    /\ Titles(file) = Titles(dBase)
    /\ file # dBase

\* C10 (as claimed): a success response marks the article published with
\* the response's URL, or with the article's own canonical URL when the
\* response carries none.
C10_PublishedHasUrl ==
    [][(DevtoRecordStep /\ dResponse.code = 201) =>
            /\ file'[dIdx].devto_published
            /\ file'[dIdx].devto_url =
                  IF dResponse.body = "url" THEN DevtoPostUrl(dIdx)
                  ELSE file'[dIdx].canonical_url
      ]_vars

\* C10 (amended): a success response with a URL marks the article published
\* with that URL.  Without a URL, Dev.to's success marks the article
\* published and records no URL, and Hashnode's success marks nothing; the
\* canonical URL is never used.  So every article published on Hashnode has
\* its post's URL, and one published on Dev.to has its post's URL or none.
C10_UrlOnlyFromResponse ==
    /\ [](\A i \in 1..Len(file) :
            /\ file[i].hashnode_published <=>
                  file[i].hashnode_url = HashnodePostUrl(i)
            /\ file[i].hashnode_url \in {None, HashnodePostUrl(i)}
            /\ file[i].devto_url \in {None, DevtoPostUrl(i)}
            /\ file[i].devto_url # None => file[i].devto_published)
    /\ [][/\ (dPc = "handle" /\ dResponse.code = 201 /\ dPc' # "idle") =>
               /\ DevtoRecordStep
               /\ file'[dIdx].devto_published
               /\ file'[dIdx].devto_url =
                     IF dResponse.body = "url" THEN DevtoPostUrl(dIdx) ELSE None
          /\ (hPc = "handle" /\ hResponse.body = "nourl" /\ hPc' # "idle") =>
               /\ hExit' = "failed"
               /\ file' = file
          /\ (hPc = "handle" /\ hResponse.body = "url" /\ hPc' # "idle") =>
               /\ file'[hIdx].hashnode_published
               /\ file'[hIdx].hashnode_url = HashnodePostUrl(hIdx)
         ]_vars

\* The first article was published with the URL of its post, the second by
\* a success response without a URL: it is marked published, no URL recorded.
C10_Witness ==
    /\ dPc = "sleep"
    /\ dIdx = 2
    /\ dResponse = [code |-> 201, body |-> "nourl"]
    /\ file[2].devto_published
    /\ file[2].devto_url = None
    /\ file[1].devto_url = DevtoPostUrl(1)
    /\ file[1].hashnode_url = HashnodePostUrl(1)

BehindBroken(i) ==
    /\ \A k \in Ids : nature[k] \in {"good", "broken"}
    /\ nature[i] = "good"
    /\ \E j \in 1..(i - 1) : nature[j] = "broken"
Unblocked(i) == \A j \in 1..i : nature[j] # "broken"
PublishedEverywhere(i) == file[i].devto_published /\ file[i].hashnode_published

\* C4 (as claimed): an article behind one whose submission always fails is
\* eventually marked published.
C4_BrokenNeverBlocks ==
    \A i \in Ids : BehindBroken(i) ~> PublishedEverywhere(i)

\* C4 (amended): an article with no always-failing article before it is
\* eventually marked published; an always-failing article and every article
\* behind it stay pending for ever.
C4_BrokenBlocks ==
    /\ \A i \in Ids : Unblocked(i) ~> PublishedEverywhere(i)
    /\ \A i \in Ids :
          [](~Unblocked(i) =>
                ~file[i].devto_published /\ ~file[i].hashnode_published)

\* The first article is published on both platforms; the second is always
\* rejected and a Dev.to run has just stopped on it; the third, which the
\* platforms would accept, is pending on both.
C4_Witness ==
    /\ nature = <<"good", "broken", "good">>
    /\ PublishedEverywhere(1)
    /\ dPc = "done"
    /\ dExit = "failed"
    /\ dIdx = 2
    /\ ~file[3].devto_published
    /\ ~file[3].hashnode_published

\* The events of the current Dev.to run, in order: "submit" when a request
\* goes out, "published" when a success is recorded, "sleep" when the pacing
\* delay has been applied.
EventsAt(kind) == {k \in 1..Len(dTrace) : dTrace[k] = kind}

\* C11: within one Dev.to run, between each recorded success and any later
\* submission lies a pacing delay.
C11_PacingBetweenSubmissions ==
    \A p \in EventsAt("published") :
        \A s \in EventsAt("submit") :
            p < s => \E d \in EventsAt("sleep") : p < d /\ d < s

\* A run has recorded a success, slept, and sent its next request.
C11_Witness ==
    /\ dPc = "wait"
    /\ dTrace = <<"submit", "published", "sleep", "submit">>

\* A run in progress or just ended whose environment lacks a credential.
DevtoRunWithoutKey == dPc # "idle" /\ ~DEVTO_API_KEY
HashnodeRunWithoutCredentials ==
    hPc # "idle" /\ (~HASHNODE_API_KEY \/ ~HASHNODE_PUBLICATION_ID)

\* C12 (as claimed): a run without its credentials, whatever the file holds,
\* sends no request, leaves the file as it loaded it, and ends with the
\* configuration error.
C12_MissingCredentialsAlwaysFatal ==
    /\ DevtoRunWithoutKey =>
          /\ dPc \notin {"wait", "handle", "sleep"}
          /\ file = dBase
          /\ dPc = "done" => dExit = "config_error"
    /\ HashnodeRunWithoutCredentials =>
          /\ hPc \notin {"wait", "handle"}
          /\ file = hBase
          /\ hPc = "done" => hExit = "config_error"

\* C12 (amended): a run without its credentials sends no request and leaves
\* the file as it loaded it; it ends with the configuration error when the
\* file it loaded holds a pending article, and ends normally, reporting
\* only that nothing is left to publish, when it holds none.
C12_MissingCredentialsFatalOnFirstSubmission ==
    /\ DevtoRunWithoutKey =>
          /\ dPc \notin {"wait", "handle", "sleep"}
          /\ dTrace = <<>>
          /\ file = dBase
          /\ dPc = "done" =>
                dExit = IF get_next_unpublished_devto_index(dBase) = 0
                        THEN "empty" ELSE "config_error"
    /\ HashnodeRunWithoutCredentials =>
          /\ hPc \notin {"wait", "handle"}
          /\ hPayload = NoPayload
          /\ file = hBase
          /\ hPc = "done" =>
                hExit = IF get_next_unpublished_hashnode(hBase) = 0
                        THEN "empty" ELSE "config_error"

\* A Dev.to run without the API key has stopped with the configuration
\* error on the second article, the first being published already.
C12_Witness ==
    /\ DevtoRunWithoutKey
    /\ dPc = "done"
    /\ dExit = "config_error"
    /\ dIdx = 2
    /\ file[1].devto_published

\* How many times `sub` occurs in `text`.
Occurrences(text, sub) ==
    Cardinality({k \in 0..(Len(text) - Len(sub)) :
                    SubSeq(text, k + 1, k + Len(sub)) = sub})
PayloadBodies == {dPayload.body_markdown, dPayload.content_markdown}

\* C13: build_body_with_cta applied to a body it has produced returns that
\* body unchanged; every body sent carries one of the two URLs, and carries
\* the footer at most once, on every attempt to submit the article.
C13_FooterIdempotent ==
    dPayload # NoPayload =>
        \A body \in PayloadBodies :
            /\ build_body_with_cta(body) = body
            /\ Contains(body, LandingMarker) \/ Contains(body, ApiMarker)
            /\ Occurrences(body, CTA_SNIPPET) <= 1

\* A request for an article whose body ends in white space and has no URL:
\* the body sent is the stripped body, a blank line and the footer.
C13_Witness ==
    /\ dPc = "wait"
    /\ dIdx = 1
    /\ articles[1].body_markdown = <<"a", " ">>
    /\ dPayload.body_markdown = <<"a", "\n", "\n">> \o CTA_SNIPPET

\* A normalized tag list: at most four tags, each of
\* lower-case letters only, no tag twice.
Normalized(tags) ==
    /\ Len(tags) <= 4
    /\ \A k \in 1..Len(tags) : \A c \in 1..Len(tags[k]) : tags[k][c] \in LowerCase
    /\ \A j, k \in 1..Len(tags) : tags[j] = tags[k] => j = k
HashnodePayloadTags == [k \in 1..Len(hPayload.tags) |-> hPayload.tags[k].slug]

\* C14 (as claimed): the tags of every payload sent are at most four,
\* lower-case, within the alphabet and without duplicates.
C14_PayloadTagsNormalized ==
    /\ dPayload # NoPayload => Normalized(dPayload.tags)
    /\ hPayload # NoPayload => Normalized(HashnodePayloadTags)

\* C14 (amended): the tags of every payload sent are the article's tags as
\* the file holds them: as many, in the same order, each unchanged; for
\* Hashnode each as both slug and name.
C14_PayloadTagsAsAuthored ==
    /\ dPayload # NoPayload => dPayload.tags = articles[dIdx].tags
    /\ hPayload # NoPayload =>
          /\ HashnodePayloadTags = hArticles[hIdx].tags
          /\ \A k \in 1..Len(hPayload.tags) :
                hPayload.tags[k].name = hPayload.tags[k].slug

\* A request to Dev.to carrying five tags, one of them twice and one with
\* upper-case letters and a space.
C14_Witness ==
    /\ dPc = "wait"
    /\ dPayload.tags = <<<<"p", "y">>, <<"M", " ", "L">>, <<"p", "y">>,
                         <<"p", "y">>, <<"p", "y">>>>

\* The article with its fields of one platform put back to an earlier value.
WithDevtoFieldsOf(article, earlier) ==
    [article EXCEPT !.devto_published = earlier.devto_published,
                    !.devto_url = earlier.devto_url]
WithHashnodeFieldsOf(article, earlier) ==
    [article EXCEPT !.hashnode_published = earlier.hashnode_published,
                    !.hashnode_url = earlier.hashnode_url]

\* C15: during and after a run the file differs from the file the run
\* loaded in nothing but the platform's own flag and URL: title, bodies,
\* canonical URL, tags, series and the other platform's fields are as loaded.
C15_OnlyOwnFieldsChange ==
    /\ dPc # "idle" =>
          /\ Len(file) = Len(dBase)
          /\ \A i \in 1..Len(file) :
                WithDevtoFieldsOf(file[i], dBase[i]) = dBase[i]
    /\ hPc # "idle" =>
          /\ Len(file) = Len(hBase)
          /\ \A i \in 1..Len(file) :
                WithHashnodeFieldsOf(file[i], hBase[i]) = hBase[i]

\* A Hashnode run has published the second article, which Dev.to does not
\* have yet, in a file whose first article is on both platforms.
C15_Witness ==
    /\ hPc = "done"
    /\ hExit = "published"
    /\ hIdx = 2
    /\ file[2].hashnode_published
    /\ ~file[2].devto_published
    /\ file[1].devto_published
    /\ file # hBase

\* C16: a success status whose body cannot be parsed is absorbed: no run
\* ends by the exception response.json() raises on such a body.
C16_MalformedSuccessAbsorbed ==
    /\ ~(dPc = "done" /\ dExit = "exception")
    /\ ~(hPc = "done" /\ hExit = "exception")

\* Dev.to has created the first article's post and answered 201 with a body
\* that is not JSON: the run has died on response.json() and the article is
\* still pending in the file.
C16_Witness ==
    /\ dPc = "done"
    /\ dExit = "exception"
    /\ dIdx = 1
    /\ 1 \in dAccepted
    /\ ~file[1].devto_published
    /\ file = dBase

\* C17 (as claimed): the pacing delay is applied only while more successes
\* are permitted; a run that reaches the cap ends without one.
C17_PacingOnlyBelowCap ==
    /\ dPc = "sleep" => published_count < MAX_PER_RUN
    /\ (dPc = "done" /\ dExit = "cap") => dTrace[Len(dTrace)] # "sleep"

\* C17 (amended): every recorded success is followed at once by the pacing
\* delay, the one that brings the count to the cap included: a run that
\* ends on the cap has slept last.
C17_PacingAfterEverySuccess ==
    /\ \A p \in EventsAt("published") :
          IF p = Len(dTrace) THEN dPc = "sleep" ELSE dTrace[p + 1] = "sleep"
    /\ dPc = "sleep" => dTrace[Len(dTrace)] = "published"
    /\ (dPc = "done" /\ dExit = "cap") =>
          /\ published_count = MAX_PER_RUN
          /\ dTrace[Len(dTrace)] = "sleep"

\* A run with cap one has recorded its one success, slept, and ended on the
\* cap.
C17_Witness ==
    /\ MAX_PER_RUN = 1
    /\ dPc = "done"
    /\ dExit = "cap"
    /\ dTrace = <<"submit", "published", "sleep">>

\* How a Dev.to run can end: on the cap, on an
\* empty queue, on a submission that did not succeed (an answer that is not
\* a success, or an exception out of the request or of reading its answer).
EndsOnCap ==
    /\ dExit = "cap"
    /\ published_count = MAX_PER_RUN
EndsOnEmptyQueue ==
    /\ dExit = "empty"
    /\ published_count < MAX_PER_RUN
    /\ get_next_unpublished_devto_index(articles) = 0
EndsOnFailedSubmission ==
    /\ dExit \in {"rate_limited", "failed", "transport_error", "exception"}
    /\ published_count < MAX_PER_RUN
    /\ dTrace[Len(dTrace)] = "submit"
    /\ ~articles[dIdx].devto_published
EndsOnMissingKey ==
    /\ dExit = "config_error"
    /\ ~DEVTO_API_KEY
    /\ dTrace = <<>>
    /\ published_count = 0
    /\ ~articles[dIdx].devto_published

\* C18 (as claimed): a run that has ended has ended in one of three ways:
\* on the cap, on an empty queue or on a submission that did not succeed.
C18_EndsInThreeWays ==
    dPc = "done" => EndsOnCap \/ EndsOnEmptyQueue \/ EndsOnFailedSubmission

\* C18 (amended): every run ends, and in exactly one of four ways: on the
\* cap, on an empty queue, on a submission that did not succeed, or, with a
\* pending article and no API key, on the configuration error before any
\* submission.
C18_RunsEndInFourWays ==
    /\ [](dPc = "done" =>
            \/ EndsOnCap
            \/ EndsOnEmptyQueue
            \/ EndsOnFailedSubmission
            \/ EndsOnMissingKey)
    /\ [](published_count <= MAX_PER_RUN)
    /\ (dPc # "idle") ~> (dPc = "done")
    /\ (hPc # "idle") ~> (hPc = "done")

\* A run with cap two has published the first article, found the second
\* rejected and ended there.
C18_Witness ==
    /\ MAX_PER_RUN = 2
    /\ dPc = "done"
    /\ dExit = "failed"
    /\ published_count = 1
    /\ dIdx = 2
    /\ EndsOnFailedSubmission

\* What the file holds of article i that a save has put there.
MarksKept(before, after) ==
    /\ before.devto_published => after.devto_published
    /\ before.hashnode_published => after.hashnode_published
    /\ before.devto_url # None => after.devto_url = before.devto_url
    /\ before.hashnode_url # None => after.hashnode_url = before.hashnode_url

\* C19: with runs of the two publishers overlapping, no save takes a
\* published mark or a published URL out of the file.
C19_NoMarkLost ==
    [][\A i \in Ids : MarksKept(file[i], file'[i])]_vars

\* Both runs have ended, each having published the first article, and the
\* file holds only one of the two marks: the later save has overwritten the
\* earlier one with the list it had loaded before.
C19_Witness ==
    /\ dPc = "done"
    /\ hPc = "done"
    /\ hExit = "published"
    /\ hIdx = 1
    /\ articles[1].devto_published
    /\ file[1].devto_published
    /\ ~file[1].hashnode_published
    /\ 1 \in hAccepted

====
